---- MODULE Spec2Model ----
(***************************************************************************)
(* Model of etl.py: the i94 immigration / airport / temperature /          *)
(* demographics batch transform.                                           *)
(*                                                                         *)
(* Representation.  A table (Spark DataFrame, temp view, parquet folder)   *)
(* is a bag of rows, a row is a record of column values.  A column value   *)
(* is NULL (the empty tuple) or                                            *)
(*   - a text: a non-empty sequence of one-character strings,              *)
(*   - a number n: the one-element tuple <<n>>,                            *)
(*   - a date: the tuple <<year, month, day>>.                             *)
(* SAS doubles are whole-valued and are represented by integers.           *)
(***************************************************************************)
EXTENDS Integers, Sequences, FiniteSets, Bags, TLC

VARIABLES
    status,     \* "running" | "done" | "aborted": state of the current run of main()
    pc,         \* <<i, j>>: main() is in its i-th call, at the j-th step of that function
    failedAt,   \* the step at which the run aborted, <<>> while none
    run,        \* number of the current run of main() (1 = first)
    inputs,     \* the source files: dataset name -> table
    views,      \* the Spark session's temp views: view name -> table
    df,         \* local dataframe variables of the function being executed
    store,      \* parquet folders on disk: destination path -> table
    writes,     \* the DataFrameWriter calls of the current run, in order
    store1      \* the store as it was when the first run completed (history)

vars == <<status, pc, failedAt, run, inputs, views, df, store, writes, store1>>

----------------------------------------------------------------------------
(* Bounds of the model *)

\* number of consecutive runs of main() explored
MaxRuns == 2

\* largest number of rows in an input file that is varied
MaxRows == 3

----------------------------------------------------------------------------
(* Column values *)

NULL == <<>>

Num(n) == <<n>>

Val(x) == x[1]

IsNull(x) == x = NULL

\* SQL comparison a = b: NULL (not true) when either side is NULL
SqlEq(a, b) == a # NULL /\ b # NULL /\ a = b

\* SQL comparison a <> b
SqlNe(a, b) == a # NULL /\ b # NULL /\ a # b

LowerCaseLetters ==
    <<"a","b","c","d","e","f","g","h","i","j","k","l","m",
      "n","o","p","q","r","s","t","u","v","w","x","y","z">>

UpperCaseLetters ==
    <<"A","B","C","D","E","F","G","H","I","J","K","L","M",
      "N","O","P","Q","R","S","T","U","V","W","X","Y","Z">>

UpperChar(c) ==
    IF \E i \in DOMAIN LowerCaseLetters : LowerCaseLetters[i] = c
    THEN UpperCaseLetters[CHOOSE i \in DOMAIN LowerCaseLetters : LowerCaseLetters[i] = c]
    ELSE c

\* SQL upper(): NULL for NULL, else every character upper-cased
Upper(s) == IF s = NULL THEN NULL ELSE [i \in DOMAIN s |-> UpperChar(s[i])]

RECURSIVE LTrim(_)
LTrim(s) == IF s # <<>> /\ Head(s) = " " THEN LTrim(Tail(s)) ELSE s

RECURSIVE RTrim(_)
RTrim(s) ==
    IF s # <<>> /\ s[Len(s)] = " " THEN RTrim(SubSeq(s, 1, Len(s) - 1)) ELSE s

\* SQL trim(): NULL for NULL, else leading and trailing spaces removed.
\* (The empty text is not distinguished from NULL in this representation.)
Trim(s) == IF s = NULL THEN NULL ELSE RTrim(LTrim(s))

\* SQL a || b
Concat(a, b) == IF a = NULL \/ b = NULL THEN NULL ELSE a \o b

\* lexicographic order of dates <<y, m, d>>
DateLess(a, b) ==
    \/ a[1] < b[1]
    \/ a[1] = b[1] /\ a[2] < b[2]
    \/ a[1] = b[1] /\ a[2] = b[2] /\ a[3] < b[3]

\* SQL comparison a > b on dates
DateGT(a, b) == a # NULL /\ b # NULL /\ DateLess(b, a)

----------------------------------------------------------------------------
(* Tables *)

Rows(T) == BagToSet(T)

Count(T) == BagCardinality(T)

\* the rows `kept` of T, with their multiplicities
Filter(T, kept) == [r \in kept \cap DOMAIN T |-> T[r]]

\* SELECT DISTINCT
Distinct(T) == SetToBag(BagToSet(T))

\* the pairs `pairs` of rows of L and R, each as often as L and R hold its rows
JoinPairs(L, R, pairs) == [p \in pairs |-> L[p[1]] * R[p[2]]]

\* all bags over the rows U with at most n rows in total
RECURSIVE BagsUpTo(_, _)
BagsUpTo(U, n) ==
    IF n = 0 THEN {EmptyBag}
    ELSE LET smaller == BagsUpTo(U, n - 1)
         IN  smaller \cup {b (+) SetToBag({r}) : b \in smaller, r \in U}

----------------------------------------------------------------------------
(* Codec functions *)

\* SAS day offsets datetime(1960,1,1) + timedelta(days=n) can represent:
\* the results 0001-01-01 .. 9999-12-31; outside, Python raises OverflowError
MinSasDays == 0 - 715509

MaxSasDays == 2936549

\* days between 1960-01-01 and 1970-01-01
EpochShift == 3653

\* the civil date <<y, m, d>> of day z, z counted from 1970-01-01
CivilFromDays(z0) ==
    LET z   == z0 + 719468
        era == z \div 146097
        doe == z - era * 146097
        yoe == (doe - doe \div 1460 + doe \div 36524 - doe \div 146096) \div 365
        doy == doe - (365 * yoe + yoe \div 4 - yoe \div 100)
        mp  == (5 * doy + 2) \div 153
        d   == doy - (153 * mp + 2) \div 5 + 1
        m   == IF mp < 10 THEN mp + 3 ELSE mp - 9
        y   == yoe + era * 400 + (IF m <= 2 THEN 1 ELSE 0)
    IN  <<y, m, d>>

\* the day number of a civil date, counted from 1970-01-01
DaysFromCivil(date) ==
    LET y0  == date[1]
        m   == date[2]
        d   == date[3]
        y   == IF m <= 2 THEN y0 - 1 ELSE y0
        era == y \div 400
        yoe == y - era * 400
        mp  == IF m > 2 THEN m - 3 ELSE m + 9
        doy == (153 * mp + 2) \div 5 + d - 1
        doe == yoe * 365 + yoe \div 4 - yoe \div 100 + doy
    IN  era * 146097 + doe - 719468

\* convert_datetime: start + timedelta(days=int(num_days)); any exception
\* (int(None), a result outside datetime's range) gives None
convert_datetime(num_days) ==
    IF num_days = NULL THEN NULL
    ELSE IF Val(num_days) < MinSasDays \/ Val(num_days) > MaxSasDays THEN NULL
    ELSE CivilFromDays(Val(num_days) - EpochShift)

convert_i94mode(mode) ==
    IF mode = Num(1) THEN "Air"
    ELSE IF mode = Num(2) THEN "Sea"
    ELSE IF mode = Num(3) THEN "Land"
    ELSE "Unknown"

\* variant: no case for a missing code
convert_visatype_no_null(visa) ==
    IF visa = Num(1) THEN "Business"
    ELSE IF visa = Num(2) THEN "Pleasure"
    ELSE IF visa = Num(3) THEN "Student"
    ELSE "Unknown"

convert_visatype(visa) ==
    IF visa = NULL THEN "Not Reported"
    ELSE IF visa = Num(1) THEN "Business"
    ELSE IF visa = Num(2) THEN "Pleasure"
    ELSE IF visa = Num(3) THEN "Student"
    ELSE "Unknown"

(* Spark SQL date functions; each is NULL for a NULL date *)

SqlYear(date) == IF date = NULL THEN NULL ELSE Num(date[1])

SqlMonth(date) == IF date = NULL THEN NULL ELSE Num(date[2])

SqlDay(date) == IF date = NULL THEN NULL ELSE Num(date[3])

SqlQuarter(date) == IF date = NULL THEN NULL ELSE Num((date[2] - 1) \div 3 + 1)

\* ISO weekday, Monday = 1 .. Sunday = 7 (1970-01-01 was a Thursday)
IsoWeekday(date) == ((DaysFromCivil(date) + 3) % 7) + 1

\* dayofweek(): Sunday = 1 .. Saturday = 7
SqlDayOfWeek(date) == IF date = NULL THEN NULL ELSE Num((IsoWeekday(date) % 7) + 1)

\* number of ISO weeks of year y
IsoWeeksInYear(y) ==
    LET p(x) == (x + x \div 4 - x \div 100 + x \div 400) % 7
    IN  IF p(y) = 4 \/ p(y - 1) = 3 THEN 53 ELSE 52

\* weekofyear(): the ISO 8601 week number
SqlWeekOfYear(date) ==
    IF date = NULL THEN NULL
    ELSE LET doy == DaysFromCivil(date) - DaysFromCivil(<<date[1], 1, 1>>) + 1
             w   == (doy - IsoWeekday(date) + 10) \div 7
         IN  IF w < 1 THEN Num(IsoWeeksInYear(date[1] - 1))
             ELSE IF w > IsoWeeksInYear(date[1]) THEN Num(1)
             ELSE Num(w)

\* date(x): the date part of a timestamp or date
SqlDate(x) == IF x = NULL THEN NULL ELSE SubSeq(x, 1, 3)

\* ifnull(x, d)
IfNull(x, d) == IF x = NULL THEN d ELSE x

----------------------------------------------------------------------------
(* Control: main() and the steps of the functions it calls *)

\* the calls of main(), in order
main ==
    << "read_country_data", "read_port_data", "read_demographics_data",
       "read_airport_data", "read_immigration_data", "read_city_temperatures" >>

\* the steps of each function, in program order
Body(fn) ==
    CASE fn = "read_country_data" ->
            << "load_countries", "probe_countries", "view_countries",
               "load_temperatures", "probe_temperatures", "reduce_temperatures",
               "join", "write" >>
      [] fn = "read_port_data" -> << "load", "probe", "view" >>
      [] fn = "read_demographics_data" -> << "load", "probe", "view", "join", "write" >>
      [] fn = "read_airport_data" -> << "load", "probe", "view", "join", "write" >>
      [] fn = "read_immigration_data" ->
            << "load", "probe", "view", "project", "write_immigrations",
               "build_time", "write_time" >>
      [] fn = "read_city_temperatures" -> << "load", "probe", "reduce", "join", "write" >>

CurFn == main[pc[1]]

CurStep == Body(CurFn)[pc[2]]

\* the run is about to execute step `step` of function `fn`
At(fn, step) == status = "running" /\ CurFn = fn /\ CurStep = step

LastOfFn == pc[2] = Len(Body(CurFn))

Finishing == LastOfFn /\ pc[1] = Len(main)

NextPc ==
    IF Finishing THEN pc
    ELSE IF LastOfFn THEN <<pc[1] + 1, 1>>
    ELSE <<pc[1], pc[2] + 1>>

\* what main() keeps of a function's locals when it returns: the value bound
\* to df_i94_ports_view
Return(d) == [n \in (DOMAIN d) \cap {"df_i94_ports_view"} |-> d[n]]

\* the current step completes, leaving views v, locals d, store s, write log w
Step(v, d, s, w) ==
    /\ views' = v
    /\ df' = IF LastOfFn THEN Return(d) ELSE d
    /\ store' = s
    /\ writes' = w
    /\ pc' = NextPc
    /\ status' = IF Finishing THEN "done" ELSE "running"
    /\ store1' = IF Finishing /\ run = 1 THEN s ELSE store1
    /\ UNCHANGED <<failedAt, run, inputs>>

\* an exception leaves the current step: nothing in main() or below catches
\* it, the process ends
Raise ==
    /\ status' = "aborted"
    /\ failedAt' = <<CurFn, CurStep>>
    /\ UNCHANGED <<pc, run, inputs, views, df, store, writes, store1>>

\* name resolution of temp views is case-insensitive (Ports_view = ports_view)
ViewKey(name) == IF name = "Ports_view" THEN "ports_view" ELSE name

HasView(name) == ViewKey(name) \in DOMAIN views

View(name) == views[ViewKey(name)]

\* createOrReplaceTempView
Register(v, name, table) == (ViewKey(name) :> table) @@ v

Bind(d, name, table) == (name :> table) @@ d

OUTPUT_PATH == "output"

\* df.write.mode(mode).partitionBy(partitionBy).parquet(path) on store s
Written(s, path, mode, data) ==
    IF mode = "append" /\ path \in DOMAIN s
    THEN (path :> (s[path] (+) data)) @@ s
    ELSE (path :> data) @@ s

WriteCall(path, mode, partitionBy) ==
    [path |-> path, mode |-> mode, partitionBy |-> partitionBy]

\* the step writes `data` and completes
WriteStep(suffix, mode, partitionBy, data) ==
    LET path == OUTPUT_PATH \o suffix
    IN  Step(views, df, Written(store, path, mode, data),
             Append(writes, WriteCall(path, mode, partitionBy)))

----------------------------------------------------------------------------
(* num_of_rows_check *)

\* the dataframe each probing step passes to num_of_rows_check
ProbedLocal ==
    CASE CurFn = "read_country_data" /\ CurStep = "probe_countries" -> "df_i94_countries"
      [] CurFn = "read_country_data" /\ CurStep = "probe_temperatures" -> "df_country_temperatures"
      [] CurFn = "read_port_data" -> "df_i94_ports"
      [] CurFn = "read_demographics_data" -> "df_demographics"
      [] CurFn = "read_airport_data" -> "df_airports"
      [] CurFn = "read_immigration_data" -> "df_immigrations"
      [] CurFn = "read_city_temperatures" -> "df"

\* variant: the probe registers its argument under the name of the port view
ProbeViewPorts == "ports_view"

\* the view num_of_rows_check registers its argument as
ProbeView == "input_view"

num_of_rows_check ==
    /\ status = "running"
    /\ CurStep \in {"probe", "probe_countries", "probe_temperatures"}
    /\ Step(Register(views, ProbeView, df[ProbedLocal]), df, store, writes)

----------------------------------------------------------------------------
(* Latest measurement per group *)

\* the threshold of the comparison dt > "1999-12-31"
MinDate == <<1999, 12, 31>>

\* F.dense_rank().over(Window.partitionBy(key).orderBy(F.desc("dt"))) of row r,
\* `partition` being the rows with r's key: one more than the number of
\* distinct dates of the partition that sort before r.dt (descending, NULL last)
DenseRankDesc(partition, r) ==
    1 + Cardinality({x.dt : x \in {y \in partition :
            /\ y.dt # NULL
            /\ (r.dt = NULL \/ DateLess(r.dt, y.dt))}})

----------------------------------------------------------------------------
(* read_country_data *)

CountryLoad ==
    /\ At("read_country_data", "load_countries")
    /\ Step(views, Bind(df, "df_i94_countries", inputs.countries), store, writes)

\* withColumnRenamed("Code", "Country_Code")
RenameCountry(r) == [Country_Code |-> r.Code, Country |-> r.Country]

CountryView ==
    /\ At("read_country_data", "view_countries")
    /\ LET renamed == BagOfAll(RenameCountry, df["df_i94_countries"])
       IN  Step(Register(views, "countries_view", renamed),
                Bind(df, "df_i94_countries", renamed), store, writes)

CountryTemperatureLoad ==
    /\ At("read_country_data", "load_temperatures")
    /\ Step(views, Bind(df, "df_country_temperatures", inputs.country_temperatures),
            store, writes)

\* the rows of the country series kept before ranking
CountryQualifies(r) ==
    /\ DateGT(r.dt, MinDate)
    /\ r.AverageTemperature # NULL

CountryKey(r) == r.Country

\* withColumn("rank", F.dense_rank().over(Window.partitionBy("Country")...))
CountryWithRank(T) ==
    LET F(r) == [dt |-> r.dt,
                 AverageTemperature |-> r.AverageTemperature,
                 AverageTemperatureUncertainty |-> r.AverageTemperatureUncertainty,
                 Country |-> r.Country,
                 rank |-> DenseRankDesc({y \in DOMAIN T : CountryKey(y) = CountryKey(r)}, r)]
    IN  BagOfAll(F, T)

\* lines 112-115: reduce the country series to its latest measurement per country
ReduceCountryTemperatures(T) ==
    LET kept   == Filter(T, {r \in DOMAIN T : CountryQualifies(r)})
        ranked == CountryWithRank(kept)
    IN  Filter(ranked, {r \in DOMAIN ranked : r.rank = 1})

CountryTemperatureReduce ==
    /\ At("read_country_data", "reduce_temperatures")
    /\ LET reduced == ReduceCountryTemperatures(df["df_country_temperatures"])
       IN  Step(Register(views, "country_temperatures_view", reduced),
                Bind(df, "df_country_temperatures", reduced), store, writes)

CountryJoinOn(cv, ct) == SqlEq(Upper(cv.Country), Upper(ct.Country))

CountryRow(cv, ct) ==
    [Country_code |-> cv.Country_Code,
     Country |-> cv.Country,
     LastMeasuredDate |-> SqlDate(ct.dt),
     AverageTemperature |-> ct.AverageTemperature,
     AverageTemperatureUncertainty |-> ct.AverageTemperatureUncertainty]

CountryRowNoMatch(cv) ==
    [Country_code |-> cv.Country_Code,
     Country |-> cv.Country,
     LastMeasuredDate |-> NULL,
     AverageTemperature |-> NULL,
     AverageTemperatureUncertainty |-> NULL]

\* variant: an inner join
CountryJoinTablesInner(cv, ct) ==
    Distinct(BagOfAll(LAMBDA p : CountryRow(p[1], p[2]),
                      JoinPairs(cv, ct, {p \in (DOMAIN cv) \X (DOMAIN ct) :
                                            CountryJoinOn(p[1], p[2])})))

\* lines 119-122: select distinct ... from countries_view cv left outer join
\* country_temperatures_view ct on upper(cv.Country)=upper(ct.Country)
CountryJoinTables(cv, ct) ==
    LET matched == JoinPairs(cv, ct, {p \in (DOMAIN cv) \X (DOMAIN ct) :
                                          CountryJoinOn(p[1], p[2])})
        lonely  == Filter(cv, {c \in DOMAIN cv :
                                  ~ \E t \in DOMAIN ct : CountryJoinOn(c, t)})
    IN  Distinct(BagOfAll(LAMBDA p : CountryRow(p[1], p[2]), matched)
                 (+) BagOfAll(CountryRowNoMatch, lonely))

CountryJoin ==
    /\ At("read_country_data", "join")
    /\ IF HasView("countries_view") /\ HasView("country_temperatures_view")
       THEN Step(views,
                 Bind(df, "df_countries",
                      CountryJoinTables(View("countries_view"),
                                        View("country_temperatures_view"))),
                 store, writes)
       ELSE Raise

\* variant: the country table is appended to
CountryWriteAppend ==
    /\ At("read_country_data", "write")
    /\ WriteStep("/parquet/Country_table", "append", <<>>, df["df_countries"])

CountryWrite ==
    /\ At("read_country_data", "write")
    /\ WriteStep("/parquet/Country_table", "overwrite", <<>>, df["df_countries"])

----------------------------------------------------------------------------
(* read_port_data *)

PortLoad ==
    /\ At("read_port_data", "load")
    /\ Step(views, Bind(df, "df_i94_ports", inputs.ports), store, writes)

\* withColumnRenamed Code -> Port_Code, City -> Port_City, State -> State_Code
RenamePort(r) == [Port_Code |-> r.Code, Port_City |-> r.City, State_Code |-> r.State]

PortView ==
    /\ At("read_port_data", "view")
    /\ LET renamed == BagOfAll(RenamePort, df["df_i94_ports"])
       IN  Step(Register(views, "ports_view", renamed),
                Bind(Bind(df, "df_i94_ports", renamed), "df_i94_ports_view", renamed),
                store, writes)

----------------------------------------------------------------------------
(* read_demographics_data *)

DemographicsLoad ==
    /\ At("read_demographics_data", "load")
    /\ Step(views, Bind(df, "df_demographics", inputs.demographics), store, writes)

\* lines 158-161: the header names of the file become column names without spaces
RenameDemographics(r) ==
    [City |-> r["City"],
     State |-> r["State"],
     Median_Age |-> r["Median Age"],
     Male_Population |-> r["Male Population"],
     Female_Population |-> r["Female Population"],
     Total_Population |-> r["Total Population"],
     Number_of_Veterans |-> r["Number of Veterans"],
     Foreign_born |-> r["Foreign-born"],
     Avg_Household_Size |-> r["Average Household Size"],
     State_Code |-> r["State Code"],
     Race |-> r["Race"],
     Count |-> r["Count"]]

DemographicsView ==
    /\ At("read_demographics_data", "view")
    /\ LET renamed == BagOfAll(RenameDemographics, df["df_demographics"])
       IN  Step(Register(views, "demo_view", renamed),
                Bind(df, "df_demographics", renamed), store, writes)

\* variant: the join compares the texts as written
DemographicsJoinOnExact(p, d) ==
    /\ SqlEq(p.Port_City, d.City)
    /\ SqlEq(p.State_Code, d.State_Code)

\* ON UPPER(p.Port_City) = UPPER(d.City) AND UPPER(p.State_Code) = UPPER(d.State_Code)
DemographicsJoinOn(p, d) ==
    /\ SqlEq(Upper(p.Port_City), Upper(d.City))
    /\ SqlEq(Upper(p.State_Code), Upper(d.State_Code))

\* select *: every column of p and of d
DemographicsStar(p, d) == [p |-> p, d |-> d]

\* line 166: the columns selected from the joined rows
DemographicsRow(pd) ==
    [Port_Code |-> pd.p.Port_Code,
     Port_City |-> pd.p.Port_City,
     State_Code |-> pd.p.State_Code,
     State |-> pd.d.State,
     Median_Age |-> pd.d.Median_Age,
     Male_Population |-> pd.d.Male_Population,
     Female_Population |-> pd.d.Female_Population,
     Total_Population |-> pd.d.Total_Population,
     Number_of_Veterans |-> pd.d.Number_of_Veterans,
     Foreign_born |-> pd.d.Foreign_born,
     Avg_Household_Size |-> pd.d.Avg_Household_Size,
     Race |-> pd.d.Race,
     Count |-> pd.d.Count]

\* lines 164-167
DemographicsJoinTables(pv, dv) ==
    LET joined == BagOfAll(LAMBDA p : DemographicsStar(p[1], p[2]),
                           JoinPairs(pv, dv, {p \in (DOMAIN pv) \X (DOMAIN dv) :
                                                 DemographicsJoinOn(p[1], p[2])}))
    IN  BagOfAll(DemographicsRow, Distinct(joined))

DemographicsJoin ==
    /\ At("read_demographics_data", "join")
    /\ IF HasView("ports_view") /\ HasView("demo_view")
       THEN Step(views,
                 Bind(df, "df_demographics",
                      DemographicsJoinTables(View("ports_view"), View("demo_view"))),
                 store, writes)
       ELSE Raise

DemographicsWrite ==
    /\ At("read_demographics_data", "write")
    /\ WriteStep("/parquet/Demographics_table", "overwrite", <<>>, df["df_demographics"])

----------------------------------------------------------------------------
(* read_airport_data *)

AirportLoad ==
    /\ At("read_airport_data", "load")
    /\ Step(views, Bind(df, "df_airports", inputs.airports), store, writes)

\* F.split(text, ","): the pieces of text between commas
RECURSIVE SplitComma(_, _)
SplitComma(text, piece) ==
    IF text = <<>> THEN <<piece>>
    ELSE IF Head(text) = "," THEN <<piece>> \o SplitComma(Tail(text), <<>>)
    ELSE SplitComma(Tail(text), Append(piece, Head(text)))

\* split(...).getItem(i), i counted from 0; NULL when there is no such piece
\* (an empty piece is represented by NULL)
SplitItem(text, i) ==
    IF text = NULL THEN NULL
    ELSE LET pieces == SplitComma(text, <<>>)
         IN  IF i + 1 \in DOMAIN pieces THEN pieces[i + 1] ELSE NULL

\* lines 188-190
WithCoordinates(r) ==
    [ident |-> r.ident, type |-> r.type, name |-> r.name,
     elevation_ft |-> r.elevation_ft, continent |-> r.continent,
     iso_country |-> r.iso_country, iso_region |-> r.iso_region,
     municipality |-> r.municipality, gps_code |-> r.gps_code,
     iata_code |-> r.iata_code, local_code |-> r.local_code,
     coordinates |-> r.coordinates,
     longitude |-> SplitItem(r.coordinates, 0),
     latitude |-> SplitItem(r.coordinates, 1)]

AirportView ==
    /\ At("read_airport_data", "view")
    /\ LET extended == BagOfAll(WithCoordinates, df["df_airports"])
       IN  Step(Register(views, "airport_view", extended),
                Bind(df, "df_airports", extended), store, writes)

Digits == <<"0","1","2","3","4","5","6","7","8","9">>

IsDigit(c) == \E i \in DOMAIN Digits : Digits[i] = c

DigitValue(c) == (CHOOSE i \in DOMAIN Digits : Digits[i] = c) - 1

RECURSIVE Decimal(_)
Decimal(ds) ==
    IF ds = <<>> THEN 0
    ELSE 10 * Decimal(SubSeq(ds, 1, Len(ds) - 1)) + DigitValue(ds[Len(ds)])

\* float(text) for texts holding whole numbers: surrounding spaces are
\* ignored, anything that is not a number gives NULL
FloatCast(text) ==
    LET t      == Trim(text)
        signed == t # NULL /\ Head(t) = "-"
        ds     == IF signed THEN Tail(t) ELSE t
    IN  IF t = NULL \/ ds = <<>> \/ \E i \in DOMAIN ds : ~ IsDigit(ds[i]) THEN NULL
        ELSE IF signed THEN Num(0 - Decimal(ds))
        ELSE Num(Decimal(ds))

\* int(ceil(feet * 0.3048)), the literal being the decimal 3048 / 10000
ElevationMetres(feet) == Num(0 - ((0 - Val(feet) * 3048) \div 10000))

US == <<"U", "S">>

Closed == <<"c", "l", "o", "s", "e", "d">>

\* on Port_Code=iata_code and iso_region=('US-' || trim(State_Code))
\* where iso_country='US' and type<>'closed'
AirportJoinOn(p, a) ==
    /\ SqlEq(p.Port_Code, a.iata_code)
    /\ SqlEq(a.iso_region, Concat(<<"U", "S", "-">>, Trim(p.State_Code)))
    /\ SqlEq(a.iso_country, US)
    /\ SqlNe(a.type, Closed)

AirportRow(p, a) ==
    [Port_Code |-> p.Port_Code,
     Port_City |-> p.Port_City,
     State_Code |-> p.State_Code,
     name |-> a.name,
     type |-> a.type,
     elevation_feet |-> IfNull(a.elevation_ft, Num(0)),
     elevation_metres |-> ElevationMetres(IfNull(a.elevation_ft, Num(0))),
     continent |-> a.continent,
     iso_country |-> a.iso_country,
     iso_region |-> a.iso_region,
     municipality |-> a.municipality,
     gps_code |-> a.gps_code,
     iata_code |-> a.iata_code,
     longitude |-> FloatCast(a.longitude),
     latitude |-> FloatCast(a.latitude)]

\* lines 197-201.  (The result of the query of lines 193-195 is replaced by
\* this one before it is used.)
AirportJoinTables(pv, av) ==
    BagOfAll(LAMBDA p : AirportRow(p[1], p[2]),
             JoinPairs(pv, av, {p \in (DOMAIN pv) \X (DOMAIN av) :
                                   AirportJoinOn(p[1], p[2])}))

AirportJoin ==
    /\ At("read_airport_data", "join")
    /\ IF HasView("ports_view") /\ HasView("airport_view")
       THEN Step(views,
                 Bind(df, "df_airports",
                      AirportJoinTables(View("ports_view"), View("airport_view"))),
                 store, writes)
       ELSE Raise

AirportWrite ==
    /\ At("read_airport_data", "write")
    /\ WriteStep("/parquet/airports_table", "overwrite", <<"State_Code">>,
                 df["df_airports"])

----------------------------------------------------------------------------
(* read_immigration_data *)

ImmigrationLoad ==
    /\ At("read_immigration_data", "load")
    /\ Step(views, Bind(df, "df_immigrations", inputs.immigrations), store, writes)

ImmigrationView ==
    /\ At("read_immigration_data", "view")
    /\ Step(Register(views, "immigrations_view", df["df_immigrations"]), df, store, writes)

\* the literal of "where int(cicid)=5748881"
SelectedCicid == 5748881

\* int(x) of a whole-valued double
IntCast(x) == IF x = NULL THEN NULL ELSE Num(Val(x))

\* lines 226-234
ImmigrationRow(r) ==
    [immigration_id |-> IntCast(r.cicid),
     Year |-> IntCast(r.i94yr),
     Month |-> IntCast(r.i94mon),
     country_of_citizenship |-> IntCast(r.i94cit),
     port_code |-> r.i94port,
     mode_of_travel |-> convert_i94mode(r.i94mode),
     visa_type |-> convert_visatype(r.i94visa),
     birth_year |-> IntCast(r.biryear),
     arrival_airline |-> r.airline,
     arrival_flightnumber |-> r.fltno,
     arrival_date |-> convert_datetime(r.arrdate),
     departure_date |-> convert_datetime(r.depdate)]

ImmigrationSelected(r) == SqlEq(IntCast(r.cicid), Num(SelectedCicid))

ImmigrationProjectTable(iv) ==
    BagOfAll(ImmigrationRow, Filter(iv, {r \in DOMAIN iv : ImmigrationSelected(r)}))

ImmigrationProject ==
    /\ At("read_immigration_data", "project")
    /\ IF HasView("immigrations_view")
       THEN Step(views,
                 Bind(df, "df_immigrations", ImmigrationProjectTable(View("immigrations_view"))),
                 store, writes)
       ELSE Raise

ImmigrationWrite ==
    /\ At("read_immigration_data", "write_immigrations")
    /\ WriteStep("/parquet/immigrations_table", "append", <<"Year", "Month">>,
                 df["df_immigrations"])

\* the columns derived from one raw SAS date
TimeRow(sas) ==
    LET date == convert_datetime(sas)
    IN  [sas_date |-> date,
         year |-> SqlYear(date),
         month |-> SqlMonth(date),
         day |-> SqlDay(date),
         weekofyear |-> SqlWeekOfYear(date),
         quarter |-> SqlQuarter(date),
         dayofweek |-> SqlDayOfWeek(date)]

\* line 252: the columns kept
TimeColumns(r) ==
    [sas_date |-> r.sas_date, year |-> r.year, month |-> r.month,
     weekofyear |-> r.weekofyear, quarter |-> r.quarter, dayofweek |-> r.dayofweek]

\* which raw dates the two halves of the union read: "where arrdate is not NULL",
\* "where depdate is not NULL"
TimeSourceKept(sas) == sas # NULL

\* lines 244-252: select distinct ... where arrdate is not NULL union
\* select distinct ... where depdate is not NULL, then the final columns
TimeTable(iv) ==
    LET arrivals   ==
            Distinct(BagOfAll(LAMBDA r : TimeRow(r.arrdate),
                              Filter(iv, {r \in DOMAIN iv : TimeSourceKept(r.arrdate)})))
        departures ==
            Distinct(BagOfAll(LAMBDA r : TimeRow(r.depdate),
                              Filter(iv, {r \in DOMAIN iv : TimeSourceKept(r.depdate)})))
    IN  BagOfAll(TimeColumns, Distinct(arrivals (+) departures))

TimeBuild ==
    /\ At("read_immigration_data", "build_time")
    /\ IF HasView("immigrations_view")
       THEN Step(views, Bind(df, "df_time_table", TimeTable(View("immigrations_view"))),
                 store, writes)
       ELSE Raise

\* variant: the time table is written to the folder of the immigration table
TimeWriteToImmigrations ==
    /\ At("read_immigration_data", "write_time")
    /\ WriteStep("/parquet/immigrations_table", "append", <<"year", "month">>,
                 df["df_time_table"])

TimeWrite ==
    /\ At("read_immigration_data", "write_time")
    /\ WriteStep("/parquet/time_table", "append", <<"year", "month">>, df["df_time_table"])

----------------------------------------------------------------------------
(* read_city_temperatures *)

CityLoad ==
    /\ At("read_city_temperatures", "load")
    /\ Step(views, Bind(df, "df", inputs.city_temperatures), store, writes)

UnitedStates == <<"U","n","i","t","e","d"," ","S","t","a","t","e","s">>

\* lines 274-275: the rows of the city series kept before ranking
CityQualifies(r) ==
    /\ DateGT(r.dt, MinDate)
    /\ SqlEq(r.Country, UnitedStates)

CityKey(r) == r.City

\* withColumn("rank", F.dense_rank().over(Window.partitionBy("City")...))
CityWithRank(T) ==
    LET F(r) == [dt |-> r.dt,
                 AverageTemperature |-> r.AverageTemperature,
                 AverageTemperatureUncertainty |-> r.AverageTemperatureUncertainty,
                 City |-> r.City,
                 Country |-> r.Country,
                 Latitude |-> r.Latitude,
                 Longitude |-> r.Longitude,
                 rank |-> DenseRankDesc({y \in DOMAIN T : CityKey(y) = CityKey(r)}, r)]
    IN  BagOfAll(F, T)

\* lines 274-277: reduce the city series to its latest measurement per city
ReduceCityTemperatures(T) ==
    LET kept   == Filter(T, {r \in DOMAIN T : CityQualifies(r)})
        ranked == CityWithRank(kept)
    IN  Filter(ranked, {r \in DOMAIN ranked : r.rank = 1})

CityReduce ==
    /\ At("read_city_temperatures", "reduce")
    /\ LET df2     == CityWithRank(Filter(df["df"], {r \in DOMAIN df["df"] : CityQualifies(r)}))
           reduced == ReduceCityTemperatures(df["df"])
       IN  Step(Register(views, "city_temperatures_view", reduced),
                Bind(Bind(df, "df2", df2), "df_city_temperatures", reduced), store, writes)

\* on upper(Port_city)=upper(City) where Port_City is not null
CityJoinOn(p, c) ==
    /\ SqlEq(Upper(p.Port_City), Upper(c.City))
    /\ p.Port_City # NULL

CityRow(p, c) ==
    [Port_Code |-> p.Port_Code,
     Port_City |-> p.Port_City,
     LastMeasuredDate |-> SqlDate(c.dt),
     AverageTemperature |-> c.AverageTemperature,
     AverageTemperatureUncertainty |-> c.AverageTemperatureUncertainty]

\* lines 279-284
CityJoinTables(pv, cv) ==
    Distinct(BagOfAll(LAMBDA p : CityRow(p[1], p[2]),
                      JoinPairs(pv, cv, {p \in (DOMAIN pv) \X (DOMAIN cv) :
                                            CityJoinOn(p[1], p[2])})))

CityJoin ==
    /\ At("read_city_temperatures", "join")
    /\ IF HasView("Ports_view") /\ HasView("city_temperatures_view")
       THEN Step(views,
                 Bind(df, "df_city_temperatures",
                      CityJoinTables(View("Ports_view"), View("city_temperatures_view"))),
                 store, writes)
       ELSE Raise

CityWrite ==
    /\ At("read_city_temperatures", "write")
    /\ WriteStep("/parquet/city_temperatures", "append", <<>>, df["df_city_temperatures"])

----------------------------------------------------------------------------
(* Failure and re-execution *)

\* variant: the exception is caught and noted, the run goes on with the next step
OnExceptionLogged ==
    /\ failedAt' = <<CurFn, CurStep>>
    /\ pc' = NextPc
    /\ status' = IF Finishing THEN "done" ELSE "running"
    /\ store1' = IF Finishing /\ run = 1 THEN store ELSE store1
    /\ UNCHANGED <<run, inputs, views, df, store, writes>>

\* what an exception raised by the current step does to the run
OnException == Raise

\* any step can fail (a missing file, an I/O error, an analysis error)
Fail ==
    /\ status = "running"
    /\ OnException

\* main() is run again (a new process: a new Spark session, the same files,
\* the same output folders)
Restart ==
    /\ status = "done"
    /\ run < MaxRuns
    /\ status' = "running"
    /\ pc' = <<1, 1>>
    /\ run' = run + 1
    /\ views' = <<>>
    /\ df' = <<>>
    /\ writes' = <<>>
    /\ UNCHANGED <<failedAt, inputs, store, store1>>

----------------------------------------------------------------------------
(* Source files *)

France == <<"F","r","a","n","c","e">>

FRANCE == <<"F","R","A","N","C","E">>

Chile == <<"C","h","i","l","e">>

Atlanta == <<"A","t","l","a","n","t","a">>

ATLANTA == <<"A","T","L","A","N","T","A">>

atlanta == <<"a","t","l","a","n","t","a">>

Boston == <<"B","o","s","t","o","n">>

Toronto == <<"T","o","r","o","n","t","o">>

Canada == <<"C","a","n","a","d","a">>

GA == <<"G","A">>

ga == <<"g","a">>

MA == <<"M","A">>

ATL == <<"A","T","L">>

BOS == <<"B","O","S">>

CountryFileRow(code, name) == [Code |-> Num(code), Country |-> name]

CountryTemperatureRow(country, dt, temperature) ==
    [dt |-> dt, AverageTemperature |-> temperature,
     AverageTemperatureUncertainty |-> Num(1), Country |-> country]

PortFileRow(code, city, state) == [Code |-> code, City |-> city, State |-> state]

DemographicsFileRow(city, stateCode, medianAge) ==
    ("City" :> city) @@ ("State" :> <<"G","e","o","r","g","i","a">>) @@ ("Median Age" :> Num(medianAge))
    @@ ("Male Population" :> Num(200)) @@ ("Female Population" :> Num(220))
    @@ ("Total Population" :> Num(420)) @@ ("Number of Veterans" :> Num(20))
    @@ ("Foreign-born" :> Num(30)) @@ ("Average Household Size" :> Num(2))
    @@ ("State Code" :> stateCode) @@ ("Race" :> <<"W","h","i","t","e">>) @@ ("Count" :> Num(100))

AirportFileRow(type, country, region, iata, elevation, coordinates) ==
    [ident |-> <<"K","A","T","L">>, type |-> type, name |-> <<"H","a","r","t","s","f","i","e","l","d">>,
     elevation_ft |-> elevation, continent |-> <<"N","A">>, iso_country |-> country,
     iso_region |-> region, municipality |-> Atlanta, gps_code |-> <<"K","A","T","L">>,
     iata_code |-> iata, local_code |-> ATL, coordinates |-> coordinates]

ImmigrationFileRow(cicid, mode, visa, arrdate, depdate) ==
    [cicid |-> Num(cicid), i94yr |-> Num(2016), i94mon |-> Num(4), i94cit |-> Num(209),
     i94port |-> ATL, biryear |-> Num(1980), airline |-> <<"D","L">>, fltno |-> <<"4","0">>,
     i94visa |-> visa, i94mode |-> mode, arrdate |-> arrdate, depdate |-> depdate]

CityTemperatureRow(city, country, dt, temperature) ==
    [dt |-> dt, AverageTemperature |-> temperature,
     AverageTemperatureUncertainty |-> Num(1), City |-> city, Country |-> country,
     Latitude |-> <<"3","4","N">>, Longitude |-> <<"8","4","W">>]

\* dates of the temperature series
Date1998 == <<1998, 1, 1>>

Date2015Jan == <<2015, 1, 1>>

Date2015Jun == <<2015, 6, 1>>

\* raw SAS dates: 2016-04-01, 2016-04-02, and a day offset past 9999-12-31
SasApr1 == Num(20545)

SasApr2 == Num(20546)

SasTooLarge == Num(4000000)

SampleCountries ==
    SetToBag({CountryFileRow(1, France), CountryFileRow(2, Chile), CountryFileRow(3, NULL)})

SampleCountryTemperatures ==
    SetToBag({CountryTemperatureRow(FRANCE, Date1998, Num(9)),
              CountryTemperatureRow(FRANCE, Date2015Jan, Num(5)),
              CountryTemperatureRow(FRANCE, Date2015Jun, NULL)})

SamplePorts ==
    SetToBag({PortFileRow(ATL, ATLANTA, GA), PortFileRow(BOS, Boston, MA),
              PortFileRow(<<"X","X","X">>, NULL, NULL)})

SampleDemographics ==
    SetToBag({DemographicsFileRow(Atlanta, GA, 35), DemographicsFileRow(Toronto, MA, 40)})

SampleAirports ==
    SetToBag({AirportFileRow(<<"l","a","r","g","e">>, US, <<"U","S","-","G","A">>, ATL,
                             Num(1026), <<"-","8","4",","," ","3","3">>),
              AirportFileRow(Closed, US, <<"U","S","-","G","A">>, ATL, NULL, NULL),
              AirportFileRow(<<"l","a","r","g","e">>, Canada, <<"C","A","-","O","N">>, BOS,
                             Num(10), <<"-","7","9">>)})

SampleImmigrations ==
    SetToBag({ImmigrationFileRow(SelectedCicid, Num(1), Num(2), SasApr1, SasApr2),
              ImmigrationFileRow(SelectedCicid + 1, Num(3), NULL, SasApr2, NULL)})

SampleCityTemperatures ==
    SetToBag({CityTemperatureRow(Atlanta, UnitedStates, Date2015Jan, Num(7)),
              CityTemperatureRow(Atlanta, UnitedStates, Date2015Jun, Num(25)),
              CityTemperatureRow(Toronto, Canada, Date2015Jun, Num(20))})

SampleInputs ==
    [countries |-> SampleCountries,
     country_temperatures |-> SampleCountryTemperatures,
     ports |-> SamplePorts,
     demographics |-> SampleDemographics,
     airports |-> SampleAirports,
     immigrations |-> SampleImmigrations,
     city_temperatures |-> SampleCityTemperatures]

(* The rows the varied files are drawn from *)

Temperatures == {NULL, Num(17)}

SeriesDates == {Date1998, Date2015Jan, Date2015Jun}

CountryFiles ==
    { SampleCountries,
      SetToBag({CountryFileRow(1, FRANCE), CountryFileRow(1, France)}),
      EmptyBag }

CountryTemperatureRows ==
    {CountryTemperatureRow(c, d, t) : c \in {France, FRANCE}, d \in SeriesDates,
                                      t \in Temperatures}

CityTemperatureRows ==
    {CityTemperatureRow(c, UnitedStates, d, t) : c \in {Atlanta, Boston}, d \in SeriesDates,
                                                 t \in Temperatures}
    \cup {CityTemperatureRow(Atlanta, Canada, Date2015Jun, Num(17))}

PortRows ==
    {PortFileRow(ATL, Atlanta, GA), PortFileRow(ATL, ATLANTA, ga),
     PortFileRow(ATL, NULL, GA), PortFileRow(BOS, Boston, MA)}

DemographicsRows ==
    {DemographicsFileRow(Atlanta, GA, 35), DemographicsFileRow(atlanta, ga, 35),
     DemographicsFileRow(Atlanta, MA, 36), DemographicsFileRow(Boston, NULL, 37)}

Codes == {NULL, Num(0), Num(1), Num(2), Num(3), Num(4)}

SasDates == {NULL, SasApr1, SasApr2, SasTooLarge}

ImmigrationRows ==
    {ImmigrationFileRow(SelectedCicid, c, c, SasApr1, SasApr2) : c \in Codes}
    \cup {ImmigrationFileRow(SelectedCicid + 1, Num(1), Num(1), a, NULL) : a \in SasDates}
    \cup {ImmigrationFileRow(SelectedCicid + 1, Num(1), Num(1), NULL, d) : d \in SasDates}
    \cup {ImmigrationFileRow(SelectedCicid + 1, Num(1), Num(1), SasApr1, SasApr1),
          ImmigrationFileRow(SelectedCicid + 1, Num(1), Num(1), SasApr2, SasApr1),
          ImmigrationFileRow(SelectedCicid + 1, Num(1), Num(1), SasTooLarge, SasApr1)}

----------------------------------------------------------------------------
(* Specifications *)

InitControl ==
    /\ status = "running"
    /\ pc = <<1, 1>>
    /\ failedAt = <<>>
    /\ run = 1
    /\ views = <<>>
    /\ df = <<>>
    /\ store = <<>>
    /\ writes = <<>>
    /\ store1 = <<>>

\* the sample files, the immigration file varied
Init ==
    /\ InitControl
    /\ \E imm \in BagsUpTo(DOMAIN SampleImmigrations, MaxRows) :
          inputs = [SampleInputs EXCEPT !.immigrations = imm]

InitCountry ==
    /\ InitControl
    /\ \E cs \in CountryFiles, ts \in BagsUpTo(CountryTemperatureRows, MaxRows) :
          inputs = [SampleInputs EXCEPT !.countries = cs, !.country_temperatures = ts]

InitCity ==
    /\ InitControl
    /\ \E ts \in BagsUpTo(CityTemperatureRows, MaxRows) :
          inputs = [SampleInputs EXCEPT !.city_temperatures = ts]

InitDemographics ==
    /\ InitControl
    /\ \E ps \in BagsUpTo(PortRows, MaxRows), ds \in BagsUpTo(DemographicsRows, MaxRows) :
          inputs = [SampleInputs EXCEPT !.ports = ps, !.demographics = ds]

InitImmigration ==
    /\ InitControl
    /\ \E imm \in BagsUpTo(ImmigrationRows, MaxRows) :
          inputs = [SampleInputs EXCEPT !.immigrations = imm]

\* one step of a run of main()
Run ==
    \/ num_of_rows_check
    \/ CountryLoad
    \/ CountryView
    \/ CountryTemperatureLoad
    \/ CountryTemperatureReduce
    \/ CountryJoin
    \/ CountryWrite
    \/ PortLoad
    \/ PortView
    \/ DemographicsLoad
    \/ DemographicsView
    \/ DemographicsJoin
    \/ DemographicsWrite
    \/ AirportLoad
    \/ AirportView
    \/ AirportJoin
    \/ AirportWrite
    \/ ImmigrationLoad
    \/ ImmigrationView
    \/ ImmigrationProject
    \/ ImmigrationWrite
    \/ TimeBuild
    \/ TimeWrite
    \/ CityLoad
    \/ CityReduce
    \/ CityJoin
    \/ CityWrite

Next == Run \/ Fail \/ Restart

Spec == Init /\ [][Next]_vars

SpecCountry == InitCountry /\ [][Run]_vars

SpecCity == InitCity /\ [][Run]_vars

SpecDemographics == InitDemographics /\ [][Run]_vars

SpecImmigration == InitImmigration /\ [][Run]_vars

----------------------------------------------------------------------------
(* Properties: vocabulary *)

\* two letters that differ at most in case
SameLetter(a, b) ==
    \/ a = b
    \/ \E k \in DOMAIN LowerCaseLetters :
          {a, b} = {LowerCaseLetters[k], UpperCaseLetters[k]}

\* two texts equal ignoring letter case (a missing text equals nothing)
EqIgnoreCase(s, t) ==
    /\ s # NULL
    /\ t # NULL
    /\ Len(s) = Len(t)
    /\ \A i \in DOMAIN s : SameLetter(s[i], t[i])

\* a row of a temperature series with a non-null value, dated after 1999-12-31
Qualifying(r) ==
    /\ r.AverageTemperature # NULL
    /\ r.dt # NULL
    /\ DateLess(<<1999, 12, 31>>, r.dt)

\* d is the most recent date among the rows Q
IsLatestDate(d, Q) ==
    /\ \E x \in Q : x.dt = d
    /\ \A x \in Q : ~ DateLess(d, x.dt)

\* the rows of the country series in r's group
CountryGroup(name) == {x \in Rows(inputs.country_temperatures) : x.Country = name}

\* the rows of the city series (the United States rows of the file) in a group
CityGroup(name) ==
    {x \in Rows(inputs.city_temperatures) : x.City = name /\ x.Country = UnitedStates}

ReducedCountry == View("country_temperatures_view")

ReducedCity == View("city_temperatures_view")

----------------------------------------------------------------------------
(* C1 *)

\* C1 (as claimed): in both reduced temperature tables every surviving row has
\* a non-null average temperature, a date after 1999-12-31, and the most
\* recent date among its group's rows with a non-null temperature and a date
\* after 1999-12-31.
C1_ReducedRowsAreLatestQualifying ==
    /\ HasView("country_temperatures_view") =>
          \A r \in Rows(ReducedCountry) :
             /\ Qualifying(r)
             /\ IsLatestDate(r.dt, {x \in CountryGroup(r.Country) : Qualifying(x)})
    /\ HasView("city_temperatures_view") =>
          \A r \in Rows(ReducedCity) :
             /\ Qualifying(r)
             /\ IsLatestDate(r.dt, {x \in CityGroup(r.City) : Qualifying(x)})

----------------------------------------------------------------------------
(* C2 *)

\* the bound C2 puts on the rows emitted for one group: with qualifying rows Q
\* (a table) and n rows emitted, 1 <= n <= number of rows of Q at Q's latest
\* date; without qualifying rows, n = 0
WithinLatestCount(n, Q) ==
    IF Rows(Q) = {} THEN n = 0
    ELSE /\ n >= 1
         /\ n <= Count(Filter(Q, {x \in DOMAIN Q : IsLatestDate(x.dt, Rows(Q))}))

\* C2 (as claimed): for each group of either series the reducer emits no row
\* when the group has no qualifying row, and otherwise at least one row and no
\* more rows than the group has at its maximum qualifying date; nothing fails.
C2_ReducerRowCount ==
    /\ status # "aborted"
    /\ HasView("country_temperatures_view") =>
          \A g \in {x.Country : x \in Rows(inputs.country_temperatures)} :
             WithinLatestCount(
                Count(Filter(ReducedCountry, {r \in DOMAIN ReducedCountry : r.Country = g})),
                Filter(inputs.country_temperatures,
                       {x \in CountryGroup(g) : Qualifying(x)}))
    /\ HasView("city_temperatures_view") =>
          \A g \in {x.City : x \in Rows(inputs.city_temperatures)} :
             WithinLatestCount(
                Count(Filter(ReducedCity, {r \in DOMAIN ReducedCity : r.City = g})),
                Filter(inputs.city_temperatures,
                       {x \in CityGroup(g) : Qualifying(x)}))

----------------------------------------------------------------------------
(* C3 *)

\* the run is about to execute a join that reads ports_view
AtPortsJoin ==
    /\ status = "running"
    /\ CurStep = "join"
    /\ CurFn \in {"read_demographics_data", "read_airport_data", "read_city_temperatures"}

\* ports_view holds the port file, with its columns renamed
PortsViewLoaded ==
    /\ "ports_view" \in DOMAIN views
    /\ views["ports_view"] =
          BagOfAll(LAMBDA r : [Port_Code |-> r.Code, Port_City |-> r.City,
                               State_Code |-> r.State],
                   inputs.ports)

\* C3: whenever the Demographics, Airport or CityTemperature join is about to
\* start, read_port_data has already registered ports_view with the port
\* table; and within a run, once ports_view exists no step replaces or
\* changes it (the row-count probe rebinds input_view only).
C3_PortsLoadedBeforeJoins ==
    /\ [](AtPortsJoin => PortsViewLoaded)
    /\ [][("ports_view" \in DOMAIN views /\ run' = run) =>
             ("ports_view" \in DOMAIN views' /\ views'["ports_view"] = views["ports_view"])]_vars

\* the last join that reads ports_view has run, after probes of other tables
C3_Witness ==
    /\ At("read_city_temperatures", "write")
    /\ PortsViewLoaded
    /\ "input_view" \in DOMAIN views
    /\ views["input_view"] # views["ports_view"]

----------------------------------------------------------------------------
(* C4 *)

\* the six write targets with their modes and partition columns
ExpectedWrites ==
    { [path |-> "output/parquet/Country_table", mode |-> "overwrite", partitionBy |-> <<>>],
      [path |-> "output/parquet/Demographics_table", mode |-> "overwrite",
       partitionBy |-> <<>>],
      [path |-> "output/parquet/airports_table", mode |-> "overwrite",
       partitionBy |-> <<"State_Code">>],
      [path |-> "output/parquet/immigrations_table", mode |-> "append",
       partitionBy |-> <<"Year", "Month">>],
      [path |-> "output/parquet/time_table", mode |-> "append",
       partitionBy |-> <<"year", "month">>],
      [path |-> "output/parquet/city_temperatures", mode |-> "append",
       partitionBy |-> <<>>] }

----------------------------------------------------------------------------
(* C5 *)

OverwrittenTables ==
    {"output/parquet/Country_table", "output/parquet/Demographics_table",
     "output/parquet/airports_table"}

AppendedTables == {"output/parquet/immigrations_table", "output/parquet/time_table"}

\* table T with every row repeated k times
Repeated(T, k) == [r \in DOMAIN T |-> k * T[r]]

\* C5 (as claimed): after a second run against unchanged inputs the Country,
\* Demographics, Airport, Immigration and Time tables are identical to those
\* a single run produced.
C5_RerunIdentical ==
    (status = "done" /\ run = 2) =>
        \A p \in OverwrittenTables \cup AppendedTables : store[p] = store1[p]

\* C5 (amended): after k consecutive runs against unchanged inputs the
\* Country, Demographics and Airport tables (overwrite mode) are identical to
\* those of a single run, and the Immigration and Time tables (append mode)
\* hold every row of a single run's output k times.
C5_RerunOverwriteIdenticalAppendRepeated ==
    (status = "done" /\ run >= 2) =>
        /\ \A p \in OverwrittenTables : store[p] = store1[p]
        /\ \A p \in AppendedTables : store[p] = Repeated(store1[p], run)

C5_Witness ==
    /\ status = "done"
    /\ run = 2
    /\ \A p \in OverwrittenTables \cup AppendedTables : store1[p] # EmptyBag

----------------------------------------------------------------------------
(* C6 *)

\* the write steps of main() in program order: position <<call, step>>, path
WriteSteps ==
    << [at |-> <<1, 8>>, path |-> "output/parquet/Country_table"],
       [at |-> <<3, 5>>, path |-> "output/parquet/Demographics_table"],
       [at |-> <<4, 5>>, path |-> "output/parquet/airports_table"],
       [at |-> <<5, 5>>, path |-> "output/parquet/immigrations_table"],
       [at |-> <<5, 7>>, path |-> "output/parquet/time_table"],
       [at |-> <<6, 5>>, path |-> "output/parquet/city_temperatures"] >>

Before(a, b) == a[1] < b[1] \/ (a[1] = b[1] /\ a[2] < b[2])

\* the tables written so far are exactly those whose write step precedes `at`
WrittenOnlyBefore(at) ==
    /\ Len(writes) = Cardinality({i \in DOMAIN WriteSteps : Before(WriteSteps[i].at, at)})
    /\ \A i \in DOMAIN writes : writes[i].path = WriteSteps[i].path

\* C6: once a step has failed the run is aborted at that step: the tables
\* written are exactly those of the steps before it, and from then on nothing
\* happens (no later step, no write, no retry, no completion).
C6_FailFast ==
    /\ [](failedAt # <<>> =>
             /\ status = "aborted"
             /\ failedAt = <<CurFn, CurStep>>
             /\ WrittenOnlyBefore(pc))
    /\ [][status = "aborted" => UNCHANGED vars]_vars

C6_Witness ==
    /\ status = "aborted"
    /\ failedAt = <<"read_immigration_data", "write_immigrations">>
    /\ Len(writes) = 3
    /\ "output/parquet/immigrations_table" \notin DOMAIN store

----------------------------------------------------------------------------
(* C7 *)

ModeNames == (Num(1) :> "Air") @@ (Num(2) :> "Sea") @@ (Num(3) :> "Land")

VisaNames ==
    (NULL :> "Not Reported") @@ (Num(1) :> "Business") @@ (Num(2) :> "Pleasure")
    @@ (Num(3) :> "Student")

NameOf(names, code) == IF code \in DOMAIN names THEN names[code] ELSE "Unknown"

\* the immigration projection has been computed and is about to be written
ImmigrationProjected == At("read_immigration_data", "write_immigrations")

\* C7: decoding never fails, and the decoded travel modes and visa types of
\* the projected immigration records are those of the two code tables, with
\* "Unknown" for every code outside a table (for the travel mode also null).
C7_CodesDecoded ==
    /\ status # "aborted"
    /\ ImmigrationProjected =>
          BagOfAll(LAMBDA o : <<o.immigration_id, o.mode_of_travel, o.visa_type>>,
                   df["df_immigrations"])
          = BagOfAll(LAMBDA r : <<r.cicid, NameOf(ModeNames, r.i94mode),
                                  NameOf(VisaNames, r.i94visa)>>,
                     Filter(inputs.immigrations,
                            {r \in DOMAIN inputs.immigrations : r.cicid = Num(5748881)}))

\* records with null codes, listed codes and unlisted codes were decoded
C7_Witness ==
    /\ ImmigrationProjected
    /\ \E o \in Rows(df["df_immigrations"]) :
          o.mode_of_travel = "Unknown" /\ o.visa_type = "Not Reported"
    /\ \E o \in Rows(df["df_immigrations"]) :
          o.mode_of_travel = "Land" /\ o.visa_type = "Student"
    /\ \E o \in Rows(df["df_immigrations"]) :
          o.mode_of_travel = "Unknown" /\ o.visa_type = "Unknown"

----------------------------------------------------------------------------
(* C8 *)

\* the row the Demographics join is to emit for port file row p and
\* demographics file row d
ExpectedDemographicsRow(p, d) ==
    [Port_Code |-> p.Code,
     Port_City |-> p.City,
     State_Code |-> p.State,
     State |-> d["State"],
     Median_Age |-> d["Median Age"],
     Male_Population |-> d["Male Population"],
     Female_Population |-> d["Female Population"],
     Total_Population |-> d["Total Population"],
     Number_of_Veterans |-> d["Number of Veterans"],
     Foreign_born |-> d["Foreign-born"],
     Avg_Household_Size |-> d["Average Household Size"],
     Race |-> d["Race"],
     Count |-> d["Count"]]

\* the (port, demographics) pairs equal on city and state code ignoring case
MatchingDemographics ==
    {pd \in Rows(inputs.ports) \X Rows(inputs.demographics) :
        /\ EqIgnoreCase(pd[1].City, pd[2]["City"])
        /\ EqIgnoreCase(pd[1].State, pd[2]["State Code"])}

DemographicsJoined == At("read_demographics_data", "write")

\* C8: the Demographics join emits one row for each (port, demographics) pair
\* whose city names and state codes are equal ignoring letter case, and no
\* other row; each row carries the port's code with the demographic fields.
C8_DemographicsJoin ==
    DemographicsJoined =>
        /\ Rows(df["df_demographics"])
             = {ExpectedDemographicsRow(pd[1], pd[2]) : pd \in MatchingDemographics}
        /\ Count(df["df_demographics"]) = Cardinality(MatchingDemographics)

\* one port and one demographics row written in different letter case: one row
C8_Witness ==
    /\ DemographicsJoined
    /\ inputs.ports = SetToBag({PortFileRow(ATL, ATLANTA, ga)})
    /\ inputs.demographics = SetToBag({DemographicsFileRow(Atlanta, GA, 35)})
    /\ Count(df["df_demographics"]) = 1
    /\ \E o \in Rows(df["df_demographics"]) : o.Port_Code = ATL /\ o.Median_Age = Num(35)

----------------------------------------------------------------------------
(* C9 *)

CountryJoined == At("read_country_data", "write")

\* output row o is the reference row c
OfCountry(o, c) == o.Country_code = c.Code /\ o.Country = c.Country

NoTemperature(o) ==
    /\ o.LastMeasuredDate = NULL
    /\ o.AverageTemperature = NULL
    /\ o.AverageTemperatureUncertainty = NULL

\* C9: every row of the country file appears in the Country table; a country
\* whose name matches no row of the reduced temperature table ignoring letter
\* case appears with null temperature fields; every output row is a row of
\* the country file.
C9_CountryJoinKeepsReference ==
    CountryJoined =>
        /\ \A c \in Rows(inputs.countries) :
              \E o \in Rows(df["df_countries"]) : OfCountry(o, c)
        /\ \A c \in Rows(inputs.countries) :
              (~ \E t \in Rows(ReducedCountry) : EqIgnoreCase(c.Country, t.Country)) =>
                 /\ \E o \in Rows(df["df_countries"]) : OfCountry(o, c) /\ NoTemperature(o)
                 /\ \A o \in Rows(df["df_countries"]) : OfCountry(o, c) => NoTemperature(o)
        /\ \A o \in Rows(df["df_countries"]) :
              \E c \in Rows(inputs.countries) : OfCountry(o, c)

\* a matched country and an unmatched country both appear
C9_Witness ==
    /\ CountryJoined
    /\ ReducedCountry # EmptyBag
    /\ \E o \in Rows(df["df_countries"]) : o.Country = France /\ ~ NoTemperature(o)
    /\ \E o \in Rows(df["df_countries"]) : o.Country = Chile /\ NoTemperature(o)

----------------------------------------------------------------------------
(* C10 *)

TimeBuilt == At("read_immigration_data", "write_time")

\* the decoded arrival and departure dates of the loaded immigration records
DecodedDates ==
    {convert_datetime(r.arrdate) : r \in Rows(inputs.immigrations)}
    \cup {convert_datetime(r.depdate) : r \in Rows(inputs.immigrations)}

\* C10 (as claimed): the time table holds no two equal rows, no row with a
\* null date, and a date exactly when it is the decoded arrival or departure
\* date of some loaded immigration record.
C10_TimeTable ==
    TimeBuilt =>
        /\ \A r \in DOMAIN df["df_time_table"] : df["df_time_table"][r] = 1
        /\ \A r \in Rows(df["df_time_table"]) : r.sas_date # NULL
        /\ {r.sas_date : r \in Rows(df["df_time_table"])} \ {NULL} = DecodedDates \ {NULL}

====
